---- MODULE Spec2Model ----
(***************************************************************************)
(* A model of the streaming completion client of the ai crate              *)
(* (crates/ai/src/providers/ollama/completion.rs), of the completion       *)
(* provider built on it, and of the token-aware truncation of the language *)
(* models (crates/ai/src/providers/{ollama,open_ai}/model.rs).             *)
(*                                                                         *)
(* Text is modelled by TLA+ strings where the code works on it (a line,    *)
(* the "data: " marker, a failure message); a JSON document is a tagged    *)
(* value; Option<T> is the empty or the one-element sequence; Result<T,E>  *)
(* is a record tagged "Ok" or "Err".                                       *)
(***************************************************************************)
EXTENDS Integers, Sequences, FiniteSets, TLC

\* ------------------------------------------------------------------ bounds

\* The longest response body, in lines, the transport delivers.
MaxLines == 3

\* ------------------------------------------------------- Option and Result

None == <<>>
Some(v) == <<v>>
IsSome(o) == o # <<>>

Ok(v) == [kind |-> "Ok", v |-> v]
Err(e) == [kind |-> "Err", error |-> e]
IsOk(r) == r.kind = "Ok"

\* -------------------------------------------------------------------- JSON

JNull == [t |-> "null"]
JStr(s) == [t |-> "str", v |-> s]
JNum(n) == [t |-> "num", v |-> n]
JArr(s) == [t |-> "arr", v |-> s]
JObj(f) == [t |-> "obj", v |-> f]

\* The metadata every stream event echoes (object, created, model).
EventMeta == "\"object\":\"chunk\",\"created\":0,\"model\":\"codellama:7b\","

\* The payloads of the "data: " frames the server may send.
\* One choice, content "Hi", no finish reason.
EvHi == "{" \o EventMeta
        \o "\"choices\":[{\"index\":0,\"delta\":{\"content\":\"Hi\"},\"finish_reason\":null}]}"
\* One choice, no content, finish reason "stop".
EvStop == "{" \o EventMeta
          \o "\"choices\":[{\"index\":0,\"delta\":{},\"finish_reason\":\"stop\"}]}"
\* No choices.
EvNoChoices == "{" \o EventMeta \o "\"choices\":[]}"
\* One choice whose finish reason is the empty text.
EvEmptyFinish == "{" \o EventMeta
                 \o "\"choices\":[{\"index\":0,\"delta\":{\"content\":\"x\"},\"finish_reason\":\"\"}]}"
\* Two choices: the first finished, the last not.
EvTwoChoices == "{" \o EventMeta
                \o "\"choices\":[{\"index\":0,\"delta\":{\"content\":\"A\"},\"finish_reason\":\"stop\"},"
                \o "{\"index\":1,\"delta\":{\"content\":\"B\"}}]}"
\* Not JSON: a frame cut short.
EvBad == "{\"choices\":[{\"index\""

\* The bodies of a non-success response.
BodyBadRequest == "{\"error\":{\"message\":\"bad request\"}}"
BodyEmptyMessage == "{\"error\":{\"message\":\"\"}}"
BodyWrongShape == "{\"error\":\"denied\"}"
BodyOops == "oops"
BodyEmpty == ""

MetaFields ==
    [object |-> JStr("chunk"), created |-> JNum(0), model |-> JStr("codellama:7b")]

EventDoc(choices) ==
    JObj([object |-> MetaFields.object, created |-> MetaFields.created,
          model |-> MetaFields.model, choices |-> JArr(choices)])

\* serde_json's reading of a text as a JSON document, over the documents of
\* this model: Ok(document), or Err for a text that is not JSON.
JsonDocument(text) ==
    CASE text = EvHi ->
           Ok(EventDoc(<<JObj([index |-> JNum(0),
                               delta |-> JObj([content |-> JStr("Hi")]),
                               finish_reason |-> JNull])>>))
      [] text = EvStop ->
           Ok(EventDoc(<<JObj([index |-> JNum(0),
                               delta |-> JObj(<<>>),
                               finish_reason |-> JStr("stop")])>>))
      [] text = EvNoChoices -> Ok(EventDoc(<<>>))
      [] text = EvEmptyFinish ->
           Ok(EventDoc(<<JObj([index |-> JNum(0),
                               delta |-> JObj([content |-> JStr("x")]),
                               finish_reason |-> JStr("")])>>))
      [] text = EvTwoChoices ->
           Ok(EventDoc(<<JObj([index |-> JNum(0),
                               delta |-> JObj([content |-> JStr("A")]),
                               finish_reason |-> JStr("stop")]),
                         JObj([index |-> JNum(1),
                               delta |-> JObj([content |-> JStr("B")])])>>))
      [] text = BodyBadRequest ->
           Ok(JObj([error |-> JObj([message |-> JStr("bad request")])]))
      [] text = BodyEmptyMessage ->
           Ok(JObj([error |-> JObj([message |-> JStr("")])]))
      [] text = BodyWrongShape -> Ok(JObj([error |-> JStr("denied")]))
      [] OTHER -> Err("expected value")

\* The fields of a JSON object, and the readers serde derives for a struct
\* field: required of a type, or Option<String> (absent or null is None).
HasField(j, f) == j.t = "obj" /\ f \in DOMAIN j.v
RequiredField(j, f, type) == HasField(j, f) /\ j.v[f].t = type
OptionalStringOk(j, f) == HasField(j, f) => j.v[f].t \in {"null", "str"}
OptionalString(j, f) ==
    IF HasField(j, f) /\ j.v[f].t = "str" THEN Some(j.v[f].v) ELSE None

\* Deserialize for ResponseMessage: role and content are both optional.
ResponseMessageOk(j) == j.t = "obj" /\ OptionalStringOk(j, "content")
ResponseMessage(j) == [content |-> OptionalString(j, "content")]

\* Deserialize for ChatChoiceDelta.
ChatChoiceDeltaOk(j) ==
    /\ RequiredField(j, "index", "num")
    /\ HasField(j, "delta") /\ ResponseMessageOk(j.v.delta)
    /\ OptionalStringOk(j, "finish_reason")
ChatChoiceDelta(j) ==
    [index |-> j.v.index.v,
     delta |-> ResponseMessage(j.v.delta),
     finish_reason |-> OptionalString(j, "finish_reason")]

\* Deserialize for OllamaResponseStreamEvent; the model keeps the choices.
OllamaResponseStreamEventOk(j) ==
    /\ RequiredField(j, "object", "str")
    /\ RequiredField(j, "created", "num")
    /\ RequiredField(j, "model", "str")
    /\ RequiredField(j, "choices", "arr")
    /\ \A i \in DOMAIN j.v.choices.v : ChatChoiceDeltaOk(j.v.choices.v[i])
OllamaResponseStreamEvent(j) ==
    [choices |-> [i \in DOMAIN j.v.choices.v |-> ChatChoiceDelta(j.v.choices.v[i])]]

\* serde_json::from_str::<OllamaResponseStreamEvent>(data).
from_str_event(data) ==
    LET doc == JsonDocument(data) IN
    IF ~IsOk(doc) THEN Err(doc.error)
    ELSE IF ~OllamaResponseStreamEventOk(doc.v) THEN Err("missing field")
    ELSE Ok(OllamaResponseStreamEvent(doc.v))

\* serde_json::from_str::<OllamaResponse>(&body): {error: {message: String}}.
from_str_response(body) ==
    LET doc == JsonDocument(body) IN
    IF ~IsOk(doc) THEN Err(doc.error)
    ELSE IF ~(/\ HasField(doc.v, "error")
              /\ RequiredField(doc.v.v.error, "message", "str"))
         THEN Err("invalid type")
    ELSE Ok([error |-> [message |-> doc.v.v.error.v.message.v]])

\* ------------------------------------------------- the streaming decode loop

\* What lines.next() yields for one line of the body: Ok(text), or an io::Error.
LineHi == Ok("data: " \o EvHi)
LineStop == Ok("data: " \o EvStop)
LineNoChoices == Ok("data: " \o EvNoChoices)
LineEmptyFinish == Ok("data: " \o EvEmptyFinish)
LineTwoChoices == Ok("data: " \o EvTwoChoices)
LineBad == Ok("data: " \o EvBad)
LineBlank == Ok("")
LineComment == Ok(": keep-alive")
LineIoError == Err("stream did not contain valid UTF-8")

Lines ==
    {LineHi, LineStop, LineNoChoices, LineEmptyFinish, LineTwoChoices, LineBad,
     LineBlank, LineComment, LineIoError}

\* str::strip_prefix: the rest of the text after the prefix, if it starts with it.
strip_prefix(text, prefix) ==
    IF Len(text) >= Len(prefix) /\ SubSeq(text, 1, Len(prefix)) = prefix
    THEN Some(SubSeq(text, Len(prefix) + 1, Len(text)))
    ELSE None

\* parse_line with a line without the marker taken for a malformed frame.
parse_line_strict(line) ==
    IF ~IsOk(line) THEN Err(line.error)
    ELSE LET data == strip_prefix(line.v, "data: ") IN
         IF IsSome(data)
         THEN LET event == from_str_event(data[1]) IN
              IF IsOk(event) THEN Ok(Some(event.v)) ELSE Err(event.error)
         ELSE Err("expected data")

\* parse_line: Result<Option<OllamaResponseStreamEvent>>.
parse_line(line) ==
    IF ~IsOk(line) THEN Err(line.error)
    ELSE LET data == strip_prefix(line.v, "data: ") IN
         IF IsSome(data)
         THEN LET event == from_str_event(data[1]) IN
              IF IsOk(event) THEN Ok(Some(event.v)) ELSE Err(event.error)
         ELSE Ok(None)

\* Result<Option<T>>::transpose: Option<Result<T>>.
transpose(r) ==
    IF IsOk(r) THEN (IF IsSome(r.v) THEN Some(Ok(r.v[1])) ELSE None)
    ELSE Some(Err(r.error))

\* The `done` flag of the loop: the event is Ok and its last choice has
\* a finish reason.
done(event) ==
    IF IsOk(event)
    THEN IF event.v.choices # <<>>
         THEN IsSome(event.v.choices[Len(event.v.choices)].finish_reason)
         ELSE FALSE
    ELSE FALSE

\* The channel as a stack: the newest item is taken first.
channel_push_front(queue, item) == <<item>> \o queue

\* The channel with an error overtaking the items not yet taken.
channel_push_error_first(queue, item) ==
    IF IsOk(item) THEN Append(queue, item) ELSE <<item>>

\* The unbounded channel: a send appends, the receiver takes the head.
channel_push(queue, item) == Append(queue, item)

\* The loop without its break on a done event.
after_send_no_done_break(sendFailed, isDone) ==
    IF sendFailed THEN "Aborted" ELSE "Streaming"

\* The loop without its break on a failed send.
after_send_ignore_failure(sendFailed, isDone) ==
    IF isDone THEN "Done" ELSE "Streaming"

\* Where the loop stands after its send: a failed send breaks out, a done
\* event breaks out, anything else reads the next line.
after_send(sendFailed, isDone) ==
    IF sendFailed THEN "Aborted"
    ELSE IF isDone THEN "Done"
    ELSE "Streaming"

\* The closure taking the first choice instead of the last.
filter_map_first_choice(response) ==
    IF IsOk(response)
    THEN IF response.v.choices = <<>> THEN None
         ELSE LET content == response.v.choices[1].delta.content
              IN Some(Ok(IF IsSome(content) THEN content[1] ELSE ""))
    ELSE Some(Err(response.error))

\* The closure complete() filters the event stream with: the delta content
\* of the last choice, nothing for an event without choices, an error as is.
filter_map(response) ==
    IF IsOk(response)
    THEN IF response.v.choices = <<>> THEN None
         ELSE LET content ==
                    response.v.choices[Len(response.v.choices)].delta.content
              IN Some(Ok(IF IsSome(content) THEN content[1] ELSE ""))
    ELSE Some(Err(response.error))

\* ---------------------------------------------------------- the error path

StatusOK == 200
Statuses == {StatusOK, 201, 400, 500}

\* Display of http::StatusCode: the code and its canonical reason.
StatusText(status) ==
    CASE status = 200 -> "200 OK"
      [] status = 201 -> "201 Created"
      [] status = 400 -> "400 Bad Request"
      [] status = 500 -> "500 Internal Server Error"

FailurePrefix == "Failed to connect to OpenAI API: "

\* The guard without its test of the message.
has_message_unchecked(parsed) == IsOk(parsed)

\* The guard of the first match arm: the body parsed and its message is not empty.
has_message(parsed) == IsOk(parsed) /\ parsed.v.error.message # ""

\* The failure stream_completion returns for a response that is not 200 OK,
\* given what read_to_string made of its body.
error_path(status, body) ==
    IF ~IsOk(body) THEN body.error
    ELSE LET parsed == from_str_response(body.v) IN
         IF has_message(parsed)
         THEN FailurePrefix \o parsed.v.error.message
         ELSE FailurePrefix \o StatusText(status) \o " " \o body.v

\* ------------------------------------------------------------ the tokenizer

\* The longest content, in characters, and the largest length asked for.
MaxContent == 4
MaxLength == 4

\* The characters of a content: "a" and "b" are one byte each in UTF-8, and
\* "e" stands for U+00E9, which is two (0xC3 0xA9).
Chars == {"a", "b", "e"}

\* str::as_bytes of one character.
utf8(ch) ==
    CASE ch = "a" -> <<97>>
      [] ch = "b" -> <<98>>
      [] ch = "e" -> <<195, 169>>

RECURSIVE as_bytes(_)
as_bytes(text) ==
    IF text = <<>> THEN <<>> ELSE utf8(Head(text)) \o as_bytes(Tail(text))

\* String::from_utf8: the text of a byte sequence, or an error when the
\* bytes are not UTF-8 (a lead byte without its continuation byte, or a
\* continuation byte on its own).
RECURSIVE from_utf8(_)
from_utf8(bytes) ==
    IF bytes = <<>> THEN Ok(<<>>)
    ELSE LET first == Head(bytes)
             width == IF first = 195 THEN 2 ELSE 1
             ch == CASE first = 97 -> Some("a")
                     [] first = 98 -> Some("b")
                     [] first = 195 /\ Len(bytes) >= 2 /\ bytes[2] = 169 -> Some("e")
                     [] OTHER -> None
         IN IF ch = None THEN Err("invalid utf-8")
            ELSE LET rest == from_utf8(SubSeq(bytes, width + 1, Len(bytes))) IN
                 IF IsOk(rest) THEN Ok(ch \o rest.v) ELSE rest

\* The vocabulary of the byte-pair encoding: the rank (the token id) of a
\* byte sequence, -1 for one that is no token. Every byte is a token; "ab",
\* "bb" and "abb" are merges; no merge joins the two bytes of "e".
Rank(bytes) ==
    CASE bytes = <<97>> -> 0
      [] bytes = <<98>> -> 1
      [] bytes = <<195>> -> 2
      [] bytes = <<169>> -> 3
      [] bytes = <<97, 98>> -> 4
      [] bytes = <<98, 98>> -> 5
      [] bytes = <<97, 98, 98>> -> 6
      [] OTHER -> -1

TokenBytes(token) ==
    CASE token = 0 -> <<97>>
      [] token = 1 -> <<98>>
      [] token = 2 -> <<195>>
      [] token = 3 -> <<169>>
      [] token = 4 -> <<97, 98>>
      [] token = 5 -> <<98, 98>>
      [] token = 6 -> <<97, 98, 98>>

\* The merge loop of the encoder: the adjacent pair of parts of the lowest
\* rank (the leftmost of them) is merged, until no pair is a token.
RECURSIVE byte_pair_merge(_)
byte_pair_merge(parts) ==
    LET pairs == {i \in 1..(Len(parts) - 1) : Rank(parts[i] \o parts[i + 1]) >= 0} IN
    IF pairs = {} THEN parts
    ELSE LET best == CHOOSE i \in pairs :
                        \A j \in pairs :
                            \/ Rank(parts[i] \o parts[i + 1]) < Rank(parts[j] \o parts[j + 1])
                            \/ /\ Rank(parts[i] \o parts[i + 1]) = Rank(parts[j] \o parts[j + 1])
                               /\ i <= j
         IN byte_pair_merge(SubSeq(parts, 1, best - 1)
                              \o <<parts[best] \o parts[best + 1]>>
                              \o SubSeq(parts, best + 2, Len(parts)))

\* CoreBPE::encode_with_special_tokens: the tokens of a text.
encode_with_special_tokens(text) ==
    LET bytes == as_bytes(text)
        merged == byte_pair_merge([i \in DOMAIN bytes |-> <<bytes[i]>>])
    IN [i \in DOMAIN merged |-> Rank(merged[i])]

RECURSIVE decode_bytes(_)
decode_bytes(tokens) ==
    IF tokens = <<>> THEN <<>>
    ELSE TokenBytes(Head(tokens)) \o decode_bytes(Tail(tokens))

\* CoreBPE::decode: the text of the bytes of the tokens, or an error.
decode(tokens) == from_utf8(decode_bytes(tokens))

\* ------------------------------------------------------ the language models

\* OllamaLanguageModel::load and OpenAiLanguageModel::load: both set bpe.
OllamaLoad(model_name) == [family |-> "Ollama", name |-> model_name, bpe |-> Some("cl100k_base")]
OpenAiLoad(model_name) == [family |-> "OpenAi", name |-> model_name, bpe |-> Some("cl100k_base")]

LanguageModels == {OllamaLoad("codellama:7b"), OpenAiLoad("gpt-4-0613")}

\* OllamaLanguageModel::count_tokens.
OllamaCountTokens(lm, text) ==
    IF IsSome(lm.bpe) THEN Ok(Len(encode_with_special_tokens(text)))
    ELSE Err("BPE tokenizer for Ollama model was not retrieved")

\* OpenAiLanguageModel::count_tokens.
OpenAiCountTokens(lm, text) ==
    IF IsSome(lm.bpe) THEN Ok(Len(encode_with_special_tokens(text)))
    ELSE Err("bpe for open ai model was not retrieved")

\* OllamaLanguageModel::truncate. A Rust slice tokens[a..b] is
\* SubSeq(tokens, a + 1, b).
\* A truncate whose End slice keeps one token more than asked for.
OllamaTruncate_one_more(lm, text, len, dir) ==
    IF IsSome(lm.bpe)
    THEN LET tokens == encode_with_special_tokens(text) IN
         IF Len(tokens) > len
         THEN IF dir = "End" THEN decode(SubSeq(tokens, 1, len + 1))
              ELSE decode(SubSeq(tokens, len + 1, Len(tokens)))
         ELSE decode(tokens)
    ELSE Err("BPE tokenizer for Ollama model was not retrieved")

\* A truncate that also slices a content of exactly the length asked for.
OllamaTruncate_at_boundary(lm, text, len, dir) ==
    IF IsSome(lm.bpe)
    THEN LET tokens == encode_with_special_tokens(text) IN
         IF Len(tokens) >= len
         THEN IF dir = "End" THEN decode(SubSeq(tokens, 1, len))
              ELSE decode(SubSeq(tokens, len + 1, Len(tokens)))
         ELSE decode(tokens)
    ELSE Err("BPE tokenizer for Ollama model was not retrieved")

OllamaTruncate(lm, text, len, dir) ==
    IF IsSome(lm.bpe)
    THEN LET tokens == encode_with_special_tokens(text) IN
         IF Len(tokens) > len
         THEN IF dir = "End" THEN decode(SubSeq(tokens, 1, len))
              ELSE decode(SubSeq(tokens, len + 1, Len(tokens)))
         ELSE decode(tokens)
    ELSE Err("BPE tokenizer for Ollama model was not retrieved")

\* OpenAiLanguageModel::truncate.
OpenAiTruncate(lm, text, len, dir) ==
    IF IsSome(lm.bpe)
    THEN LET tokens == encode_with_special_tokens(text) IN
         IF Len(tokens) > len
         THEN IF dir = "End" THEN decode(SubSeq(tokens, 1, len))
              ELSE decode(SubSeq(tokens, len + 1, Len(tokens)))
         ELSE decode(tokens)
    ELSE Err("bpe for open ai model was not retrieved")

\* The calls through the LanguageModel trait.
count_tokens(lm, text) ==
    IF lm.family = "Ollama" THEN OllamaCountTokens(lm, text)
    ELSE OpenAiCountTokens(lm, text)

truncate(lm, text, len, dir) ==
    IF lm.family = "Ollama" THEN OllamaTruncate(lm, text, len, dir)
    ELSE OpenAiTruncate(lm, text, len, dir)

\* The contents of at most n characters.
RECURSIVE Contents(_)
Contents(n) ==
    IF n = 0 THEN {<<>>}
    ELSE LET shorter == Contents(n - 1) IN
         shorter \cup {Append(t, ch) : t \in {s \in shorter : Len(s) = n - 1}, ch \in Chars}

VARIABLES
    lm,         \* the language model a caller holds
    content,    \* the content it truncates
    length,     \* the length it asks for
    direction,  \* the direction it truncates from
    tpc,        \* where the caller stands: "call", "truncated", "counted", "again", "idle"
    result,     \* what truncate returned
    counted,    \* what count_tokens returned for the truncated text
    again       \* what truncate returned for the truncated text

truncVars == <<lm, content, length, direction, tpc, result, counted, again>>

NoResult == Err("not called")

\* No caller of the language model.
TruncIdle ==
    /\ lm = OllamaLoad("codellama:7b")
    /\ content = <<>>
    /\ length = 0
    /\ direction = "End"
    /\ tpc = "idle"
    /\ result = NoResult
    /\ counted = NoResult
    /\ again = NoResult

\* A caller about to truncate some content to some length from either end.
TruncCall ==
    /\ lm \in LanguageModels
    /\ content \in Contents(MaxContent)
    /\ length \in 0..MaxLength
    /\ direction \in {"Start", "End"}
    /\ tpc = "call"
    /\ result = NoResult
    /\ counted = NoResult
    /\ again = NoResult

\* ------------------------------------------------------ the model catalogs

MaxCycles == 3

\* crates/ai: OpenAiModel and its cycle.
OpenAiModels == {"ThreePointFiveTurbo", "Four", "FourTurbo"}

OpenAiModelCycle(model) ==
    CASE model = "ThreePointFiveTurbo" -> "Four"
      [] model = "Four" -> "FourTurbo"
      [] model = "FourTurbo" -> "ThreePointFiveTurbo"

\* crates/ai: OllamaModel and its cycle.
OllamaModels == {"CodeLlamaSevenBillion", "CodeLlamaThirteenBillion"}

OllamaModelCycle(model) ==
    CASE model = "CodeLlamaSevenBillion" -> "CodeLlamaThirteenBillion"
      [] model = "CodeLlamaThirteenBillion" -> "CodeLlamaSevenBillion"

\* crates/ai: AiModelVariant, a model under the tag of its provider.
OpenAI(model) == [provider |-> "OpenAI", model |-> model]

Ollama(model) == [provider |-> "Ollama", model |-> model]

AiModelVariants ==
    {OpenAI(model) : model \in OpenAiModels} \cup {Ollama(model) : model \in OllamaModels}

\* A cycle that wraps from the last OpenAI model into the Ollama models.
AiModelVariantCycle_across(variant) ==
    IF variant = OpenAI("FourTurbo") THEN Ollama("CodeLlamaSevenBillion")
    ELSE IF variant.provider = "OpenAI" THEN OpenAI(OpenAiModelCycle(variant.model))
    ELSE Ollama(OllamaModelCycle(variant.model))

AiModelVariantCycle(variant) ==
    IF variant.provider = "OpenAI" THEN OpenAI(OpenAiModelCycle(variant.model))
    ELSE Ollama(OllamaModelCycle(variant.model))

\* crates/assistant: the settings' own OpenAiModel and OllamaModel.
SettingsOpenAiModels == {"ThreePointFiveTurbo", "Four", "FourTurbo"}

SettingsOpenAiModelCycle(model) ==
    CASE model = "ThreePointFiveTurbo" -> "Four"
      [] model = "Four" -> "FourTurbo"
      [] model = "FourTurbo" -> "ThreePointFiveTurbo"

SettingsOllamaModels == {"CodeLlamaSevenBillion"}

SettingsOllamaModelCycle(model) ==
    CASE model = "CodeLlamaSevenBillion" -> "CodeLlamaSevenBillion"

\* crates/assistant: AiModel and AiProvider.
AiModels ==
    {OpenAI(model) : model \in SettingsOpenAiModels}
        \cup {Ollama(model) : model \in SettingsOllamaModels}

AiModelCycle(variant) ==
    IF variant.provider = "OpenAI" THEN OpenAI(SettingsOpenAiModelCycle(variant.model))
    ELSE Ollama(SettingsOllamaModelCycle(variant.model))

AiProviders == {"OpenAI", "Ollama"}

AiProviderCycle(provider) ==
    IF provider = "OpenAI" THEN "Ollama" ELSE "OpenAI"

default_model(provider) ==
    IF provider = "OpenAI" THEN OpenAI("ThreePointFiveTurbo")
    ELSE Ollama("CodeLlamaSevenBillion")

\* The on-wire names of the models.
OpenAiModelFullName(model) ==
    CASE model = "ThreePointFiveTurbo" -> "gpt-3.5-turbo-0613"
      [] model = "Four" -> "gpt-4-0613"
      [] model = "FourTurbo" -> "gpt-4-1106-preview"

\* Both Ollama models under the name of the first.
OllamaModelFullName_same(model) ==
    CASE model = "CodeLlamaSevenBillion" -> "codellama:7b"
      [] model = "CodeLlamaThirteenBillion" -> "codellama:7b"

OllamaModelFullName(model) ==
    CASE model = "CodeLlamaSevenBillion" -> "codellama:7b"
      [] model = "CodeLlamaThirteenBillion" -> "codellama:13b"

AiModelVariantFullName(variant) ==
    IF variant.provider = "OpenAI" THEN OpenAiModelFullName(variant.model)
    ELSE OllamaModelFullName(variant.model)

SettingsOpenAiModelFullName(model) ==
    CASE model = "ThreePointFiveTurbo" -> "gpt-3.5-turbo-0613"
      [] model = "Four" -> "gpt-4-0613"
      [] model = "FourTurbo" -> "gpt-4-1106-preview"

SettingsOllamaModelFullName(model) ==
    CASE model = "CodeLlamaSevenBillion" -> "codellama:7b"

AiModelFullName(variant) ==
    IF variant.provider = "OpenAI" THEN SettingsOpenAiModelFullName(variant.model)
    ELSE SettingsOllamaModelFullName(variant.model)

full_name(crateName, variant) ==
    IF crateName = "ai" THEN AiModelVariantFullName(variant) ELSE AiModelFullName(variant)

\* Role, defined in crates/ai/src/completion.rs and again in the ollama
\* completion module; cycle replaces the role by its successor.
Roles == {"User", "Assistant", "System"}

RoleCycle(role) ==
    CASE role = "User" -> "Assistant"
      [] role = "Assistant" -> "System"
      [] role = "System" -> "User"

\* A cycle that stays at System.
OllamaRoleCycle_stuck(role) ==
    CASE role = "User" -> "Assistant"
      [] role = "Assistant" -> "System"
      [] role = "System" -> "System"

OllamaRoleCycle(role) ==
    CASE role = "User" -> "Assistant"
      [] role = "Assistant" -> "System"
      [] role = "System" -> "User"

RoleModules == {"completion", "ollama"}

role_cycle(moduleName, role) ==
    IF moduleName = "completion" THEN RoleCycle(role) ELSE OllamaRoleCycle(role)

\* The two catalogs of the repository and their cycle.
Crates == {"ai", "assistant"}

Catalog(crateName) == IF crateName = "ai" THEN AiModelVariants ELSE AiModels

cycle(crateName, variant) ==
    IF crateName = "ai" THEN AiModelVariantCycle(variant) ELSE AiModelCycle(variant)

VARIABLES
    crate,              \* the crate whose catalog a caller cycles through
    trail,              \* the variants it has held, the current one last
    default_provider,   \* AssistantSettings.default_provider
    default_ai_model,   \* AssistantSettings.default_ai_model
    roleModule,         \* the module whose Role a caller holds
    roles,              \* the roles it has held, the current one last
    wire                \* the variant last named on the wire, and that name

catalogVars ==
    <<crate, trail, default_provider, default_ai_model, roleModule, roles, wire>>

\* Nobody cycles; the settings are the documented defaults.
CatalogIdle ==
    /\ crate = "ai"
    /\ trail = <<>>
    /\ default_provider = "OpenAI"
    /\ default_ai_model = OpenAI("FourTurbo")
    /\ roleModule = "completion"
    /\ roles = <<>>
    /\ wire = None

\* A caller holds some variant of some catalog, and the settings were
\* deserialized: each of the two fields from its own key.
CatalogLoaded ==
    /\ crate \in Crates
    /\ trail \in {<<variant>> : variant \in Catalog(crate)}
    /\ default_provider \in AiProviders
    /\ default_ai_model \in AiModels
    /\ roleModule \in RoleModules
    /\ roles \in {<<role>> : role \in Roles}
    /\ wire = None

\* ------------------------------------------------------ the state of a call

\* The complete() calls in flight on one provider (or on clones of it).
Calls == {1, 2}

VARIABLES
    response,   \* per call: what the server answers (fixed when the call is made)
    phase,      \* per call: where stream_completion and its background task stand
    pos,        \* per call: the number of lines read from the body
    chan,       \* per call: the items in the channel, oldest first
    consumer,   \* per call: where the caller of complete() stands
    fragments,  \* per call: the items the fragment sequence has yielded
    failure,    \* per call: the failure complete() returned (None: none)
    sent,       \* history, per call: every item sent on the channel, in order
    received,   \* history, per call: every item taken from the channel, in order
    dropPos,    \* history, per call: pos when the consumer dropped (-1: no drop)
    dropSent    \* history, per call: Len(sent) when the consumer dropped

streamVars ==
    <<response, phase, pos, chan, consumer, fragments, failure,
      sent, received, dropPos, dropSent>>

\* The bodies of at most n lines.
RECURSIVE Bodies(_)
Bodies(n) ==
    IF n = 0 THEN {<<>>}
    ELSE LET shorter == Bodies(n - 1) IN
         shorter \cup {Append(b, l) : b \in {s \in shorter : Len(s) = n - 1}, l \in Lines}

\* What read_to_string makes of the body of a response that is not 200 OK.
ErrorBodies ==
    {Ok(BodyBadRequest), Ok(BodyEmptyMessage), Ok(BodyWrongShape), Ok(BodyOops),
     Ok(BodyEmpty), Err("unexpected end of file")}

\* The answers to a request: the request fails in transport, or a response
\* arrives with a status and a body (lines for the streaming path, text for
\* the error path).
Responses ==
    {[kind |-> "TransportError", status |-> 0, lines |-> <<>>, body |-> Ok("")]}
    \cup {[kind |-> "Response", status |-> StatusOK, lines |-> b, body |-> Ok("")] :
            b \in Bodies(MaxLines)}
    \cup {[kind |-> "Response", status |-> st, lines |-> <<>>, body |-> eb] :
            st \in Statuses \ {StatusOK}, eb \in ErrorBodies}

NoCall == [kind |-> "NoCall", status |-> 0, lines |-> <<>>, body |-> Ok("")]

\* A send that never fails, as if the receiver outlived the consumer.
unbounded_send_never_err(c) == FALSE

\* tx.unbounded_send(event).is_err(): the send fails once the receiver is
\* dropped. The receiver lives in stream_completion until the stream is
\* returned, and then in the consumer's fragment sequence until that is
\* dropped.
\* A channel of capacity one: a send waits while an item is unread.
bounded_send_ready(queue) == Len(queue) < 1

\* The channel is unbounded: a send never waits for room, whatever is unread.
unbounded_send_ready(queue) == Len(queue) >= 0

\* One receiver for all calls: a send fails once any consumer has dropped.
unbounded_send_is_err_any(c) == \E other \in Calls : consumer[other] = "Dropped"

unbounded_send_is_err(c) == consumer[c] = "Dropped"

\* A sender released only by a finish frame.
TaskOver_only_done(c) == phase[c] = "Done"

\* A sender that outlives a task that returned at the end of the body.
TaskOver_sender_kept(c) == phase[c] \in {"Done", "Aborted"}

\* The sender lives in the background task and is released when it returns.
TaskOver(c) == phase[c] \in {"Done", "Aborted", "EndOfBody"}

InitCalls(active) ==
    /\ phase = [c \in Calls |-> IF c \in active THEN "AwaitingResponse" ELSE "NoCall"]
    /\ pos = [c \in Calls |-> 0]
    /\ chan = [c \in Calls |-> <<>>]
    /\ consumer = [c \in Calls |-> IF c \in active THEN "Awaiting" ELSE "NoCall"]
    /\ fragments = [c \in Calls |-> <<>>]
    /\ failure = [c \in Calls |-> None]
    /\ sent = [c \in Calls |-> <<>>]
    /\ received = [c \in Calls |-> <<>>]
    /\ dropPos = [c \in Calls |-> -1]
    /\ dropSent = [c \in Calls |-> 0]

\* -------------------------------------------------------- stream_completion

\* The request is answered. A transport failure fails the call; 200 OK spawns
\* the background task and returns the stream; any other status takes the
\* error path.
ReceiveResponse(c) ==
    /\ phase[c] = "AwaitingResponse"
    /\ IF response[c].kind = "TransportError"
       THEN /\ phase' = [phase EXCEPT ![c] = "Failed"]
            /\ failure' = [failure EXCEPT ![c] = Some("error sending request")]
            /\ consumer' = [consumer EXCEPT ![c] = "Failed"]
       ELSE IF response[c].status = StatusOK
       THEN /\ phase' = [phase EXCEPT ![c] = "Streaming"]
            /\ consumer' = [consumer EXCEPT ![c] = "Polling"]
            /\ UNCHANGED failure
       ELSE /\ phase' = [phase EXCEPT ![c] = "ErrorBody"]
            /\ UNCHANGED <<consumer, failure>>
    /\ UNCHANGED <<response, pos, chan, fragments, sent, received, dropPos, dropSent>>
    /\ UNCHANGED <<truncVars, catalogVars>>

\* The error path: the body is read, and the call fails.
ReadErrorBody(c) ==
    /\ phase[c] = "ErrorBody"
    /\ phase' = [phase EXCEPT ![c] = "Failed"]
    /\ failure' = [failure EXCEPT
                     ![c] = Some(error_path(response[c].status, response[c].body))]
    /\ consumer' = [consumer EXCEPT ![c] = "Failed"]
    /\ UNCHANGED <<response, pos, chan, fragments, sent, received, dropPos, dropSent>>
    /\ UNCHANGED <<truncVars, catalogVars>>

\* One turn of the loop of the background task: a line is read; a line that
\* is no frame is discarded; a frame or an error is sent on the channel,
\* and the loop breaks when the send fails or the event is done.
StreamLoopStep(c) ==
    /\ phase[c] = "Streaming"
    /\ pos[c] < Len(response[c].lines)
    /\ unbounded_send_ready(chan[c])
    /\ pos' = [pos EXCEPT ![c] = @ + 1]
    /\ LET line == response[c].lines[pos[c] + 1]
           parsed == transpose(parse_line(line))
       IN IF IsSome(parsed)
          THEN LET event == parsed[1]
                   sendFailed == unbounded_send_is_err(c)
               IN /\ IF sendFailed
                     THEN UNCHANGED <<chan, sent>>
                     ELSE /\ chan' = [chan EXCEPT ![c] = channel_push(@, event)]
                          /\ sent' = [sent EXCEPT ![c] = Append(@, event)]
                  /\ phase' = [phase EXCEPT ![c] = after_send(sendFailed, done(event))]
          ELSE UNCHANGED <<chan, sent, phase>>
    /\ UNCHANGED <<response, consumer, fragments, failure, received, dropPos, dropSent>>
    /\ UNCHANGED <<truncVars, catalogVars>>

\* The body is at its end: lines.next() yields None and the task returns.
StreamLoopEnd(c) ==
    /\ phase[c] = "Streaming"
    /\ pos[c] = Len(response[c].lines)
    /\ phase' = [phase EXCEPT ![c] = "EndOfBody"]
    /\ UNCHANGED <<response, pos, chan, consumer, fragments, failure,
                   sent, received, dropPos, dropSent>>
    /\ UNCHANGED <<truncVars, catalogVars>>

\* ----------------------------------------------------------------- consumer

\* The consumer polls the fragment sequence and the channel holds an item:
\* the item is taken and filter_map yields its fragment, if it has one.
ConsumerNext(c) ==
    /\ consumer[c] = "Polling"
    /\ chan[c] # <<>>
    /\ LET item == Head(chan[c]) IN
       /\ received' = [received EXCEPT ![c] = Append(@, item)]
       /\ fragments' = [fragments EXCEPT ![c] = @ \o filter_map(item)]
    /\ chan' = [chan EXCEPT ![c] = Tail(@)]
    /\ UNCHANGED <<response, phase, pos, consumer, failure, sent, dropPos, dropSent>>
    /\ UNCHANGED <<truncVars, catalogVars>>

\* The consumer polls, the channel is empty and its sender is released: the
\* fragment sequence ends.
ConsumerEnd(c) ==
    /\ consumer[c] = "Polling"
    /\ chan[c] = <<>>
    /\ TaskOver(c)
    /\ consumer' = [consumer EXCEPT ![c] = "Ended"]
    /\ UNCHANGED <<response, phase, pos, chan, fragments, failure,
                   sent, received, dropPos, dropSent>>
    /\ UNCHANGED <<truncVars, catalogVars>>

\* The consumer drops the fragment sequence: the receiver is dropped with
\* the items it still holds.
ConsumerDrop(c) ==
    /\ consumer[c] = "Polling"
    /\ consumer' = [consumer EXCEPT ![c] = "Dropped"]
    /\ chan' = [chan EXCEPT ![c] = <<>>]
    /\ dropPos' = [dropPos EXCEPT ![c] = pos[c]]
    /\ dropSent' = [dropSent EXCEPT ![c] = Len(sent[c])]
    /\ UNCHANGED <<response, phase, pos, fragments, failure, sent, received>>
    /\ UNCHANGED <<truncVars, catalogVars>>

StreamNext ==
    \E c \in Calls :
        \/ ReceiveResponse(c)
        \/ ReadErrorBody(c)
        \/ StreamLoopStep(c)
        \/ StreamLoopEnd(c)
        \/ ConsumerNext(c)
        \/ ConsumerEnd(c)
        \/ ConsumerDrop(c)

\* ------------------------------------------------- the callers of truncate

\* The caller truncates its content.
Truncate ==
    /\ tpc = "call"
    /\ result' = truncate(lm, content, length, direction)
    /\ tpc' = "truncated"
    /\ UNCHANGED <<lm, content, length, direction, counted, again>>
    /\ UNCHANGED <<streamVars, catalogVars>>

\* The caller counts the tokens of the text truncate returned.
CountTokens ==
    /\ tpc = "truncated"
    /\ IsOk(result)
    /\ counted' = count_tokens(lm, result.v)
    /\ tpc' = "counted"
    /\ UNCHANGED <<lm, content, length, direction, result, again>>
    /\ UNCHANGED <<streamVars, catalogVars>>

\* The caller truncates the text truncate returned, to the same length from
\* the same end.
TruncateAgain ==
    /\ tpc \in {"truncated", "counted"}
    /\ IsOk(result)
    /\ again' = truncate(lm, result.v, length, direction)
    /\ tpc' = "again"
    /\ UNCHANGED <<lm, content, length, direction, result, counted>>
    /\ UNCHANGED <<streamVars, catalogVars>>

TruncNext == Truncate \/ CountTokens \/ TruncateAgain

\* ------------------------------------------- the callers of the catalogs

\* The caller moves to the next variant.
CycleVariant ==
    /\ Len(trail) >= 1
    /\ Len(trail) <= MaxCycles
    /\ trail' = Append(trail, cycle(crate, trail[Len(trail)]))
    /\ UNCHANGED <<crate, default_provider, default_ai_model, roleModule, roles, wire>>
    /\ UNCHANGED <<streamVars, truncVars>>

\* The settings move to the next model.
CycleModel ==
    /\ Len(trail) >= 1
    /\ default_ai_model' = AiModelCycle(default_ai_model)
    /\ UNCHANGED <<crate, trail, default_provider, roleModule, roles, wire>>
    /\ UNCHANGED <<streamVars, truncVars>>

\* The settings move to the next provider and to its default model.
SwitchProvider ==
    /\ Len(trail) >= 1
    /\ default_provider' = AiProviderCycle(default_provider)
    /\ default_ai_model' = default_model(default_provider')
    /\ UNCHANGED <<crate, trail, roleModule, roles, wire>>
    /\ UNCHANGED <<streamVars, truncVars>>

\* The caller's role is replaced by its successor.
CycleRole ==
    /\ Len(roles) >= 1
    /\ Len(roles) <= MaxCycles
    /\ roles' = Append(roles, role_cycle(roleModule, roles[Len(roles)]))
    /\ UNCHANGED <<crate, trail, default_provider, default_ai_model, roleModule, wire>>
    /\ UNCHANGED <<streamVars, truncVars>>

\* The caller names the variant it holds, as for the model field of a request.
NameVariant ==
    /\ Len(trail) >= 1
    /\ wire' = Some([variant |-> trail[Len(trail)],
                     name |-> full_name(crate, trail[Len(trail)])])
    /\ UNCHANGED <<crate, trail, default_provider, default_ai_model, roleModule, roles>>
    /\ UNCHANGED <<streamVars, truncVars>>

CatalogNext == CycleVariant \/ CycleModel \/ SwitchProvider \/ CycleRole \/ NameVariant

\* ------------------------------------------------------------ specifications

vars == <<streamVars, truncVars, catalogVars>>

\* One call of complete(), answered in any of the ways of Responses.
Init ==
    /\ response \in {[c \in Calls |-> IF c = 1 THEN r ELSE NoCall] : r \in Responses}
    /\ InitCalls({1})
    /\ TruncIdle
    /\ CatalogIdle

Next == StreamNext

Spec == Init /\ [][Next]_vars

\* Answers with a finite body of each kind: with a finish frame before its
\* end, without one, empty, with errors, with keep-alive lines; and the two
\* answers without stream.
FiniteResponses ==
    {[kind |-> "Response", status |-> StatusOK, lines |-> b, body |-> Ok("")] :
        b \in {<<>>,
                <<LineHi, LineStop, LineHi>>,
                <<LineHi, LineBlank, LineHi>>,
                <<LineBad, LineHi>>,
                <<LineIoError, LineStop>>,
                <<LineComment, LineEmptyFinish, LineHi>>,
                <<LineNoChoices, LineTwoChoices, LineStop>>}}
    \cup {[kind |-> "TransportError", status |-> 0, lines |-> <<>>, body |-> Ok("")],
          [kind |-> "Response", status |-> 500, lines |-> <<>>, body |-> Ok(BodyOops)]}

InitFinite ==
    /\ response \in {[c \in Calls |-> IF c = 1 THEN r ELSE NoCall] : r \in FiniteResponses}
    /\ InitCalls({1})
    /\ TruncIdle
    /\ CatalogIdle

\* One call where the executor keeps running the spawned task, the
\* transport keeps delivering the lines of the body, the request is answered,
\* and a consumer that has not dropped the stream keeps polling it.
Fairness ==
    \A c \in Calls :
        /\ WF_vars(ReceiveResponse(c) \/ ReadErrorBody(c))
        /\ WF_vars(StreamLoopStep(c) \/ StreamLoopEnd(c))
        /\ WF_vars(ConsumerNext(c) \/ ConsumerEnd(c))

FairSpec == InitFinite /\ [][Next]_vars /\ Fairness

\* Two calls of complete() on one provider, in flight together, each answered
\* in its own way.
ConcurrentResponses ==
    {[kind |-> "Response", status |-> StatusOK, lines |-> b, body |-> Ok("")] :
        b \in {<<LineHi, LineHi>>, <<LineTwoChoices, LineStop>>, <<LineBlank, LineBad>>}}
    \cup {[kind |-> "Response", status |-> 500, lines |-> <<>>, body |-> Ok(BodyOops)]}

InitConcurrent ==
    /\ response \in [Calls -> ConcurrentResponses]
    /\ InitCalls(Calls)
    /\ TruncIdle
    /\ CatalogIdle

SpecConcurrent == InitConcurrent /\ [][Next]_vars

\* One caller of a language model's truncate and count_tokens.
InitTrunc ==
    /\ response = [c \in Calls |-> NoCall]
    /\ InitCalls({})
    /\ TruncCall
    /\ CatalogIdle

SpecTrunc == InitTrunc /\ [][TruncNext]_vars

\* One caller cycling through a catalog, and the assistant's settings.
InitCatalog ==
    /\ response = [c \in Calls |-> NoCall]
    /\ InitCalls({})
    /\ TruncIdle
    /\ CatalogLoaded

SpecCatalog == InitCatalog /\ [][CatalogNext]_vars

\* --------------------------------------------------------------- properties

\* The consumer has dropped the fragment sequence.
Dropped(c) == consumer[c] = "Dropped"

\* The lines the task has read, and the lines it read after the consumer's drop.
LinesRead(c) == SubSeq(response[c].lines, 1, pos[c])
LinesReadAfterDrop(c) == SubSeq(response[c].lines, dropPos[c] + 1, pos[c])

\* A line the transport delivered that does not start with the marker "data: "
\* (a blank line, a comment, a keep-alive).
IsKeepAlive(line) ==
    /\ line.kind = "Ok"
    /\ ~(Len(line.v) >= 6 /\ SubSeq(line.v, 1, 6) = "data: ")

\* A line that makes the loop send: a "data: " frame or a read error.
IsFrameLine(line) == ~IsKeepAlive(line)

\* The item the loop makes of a frame line.
ItemOf(line) == transpose(parse_line(line))[1]

\* An event whose last choice carries a finish reason.
HasFinish(item) ==
    /\ item.kind = "Ok"
    /\ Len(item.v.choices) > 0
    /\ item.v.choices[Len(item.v.choices)].finish_reason # None

\* The fragment an item stands for: the delta content of the last choice of
\* its event (the empty text without content), none for an event without
\* choices, and the error of an error item.
ExpectedFragment(item) ==
    IF item.kind = "Err" THEN <<Err(item.error)>>
    ELSE IF Len(item.v.choices) = 0 THEN <<>>
    ELSE LET last == item.v.choices[Len(item.v.choices)] IN
         IF last.delta.content = None THEN <<Ok("")>>
         ELSE <<Ok(last.delta.content[1])>>

RECURSIVE ExpectedFragments(_)
ExpectedFragments(items) ==
    IF items = <<>> THEN <<>>
    ELSE ExpectedFragments(SubSeq(items, 1, Len(items) - 1))
         \o ExpectedFragment(items[Len(items)])

IsPrefix(s, t) == Len(s) <= Len(t) /\ SubSeq(t, 1, Len(s)) = s

Contains(s, t) ==
    \E i \in 1..(Len(s) - Len(t) + 1) : SubSeq(s, i, i + Len(t) - 1) = t

EndsWith(s, t) ==
    Len(s) >= Len(t) /\ SubSeq(s, Len(s) - Len(t) + 1, Len(s)) = t

\* C1: a read error or a frame that fails to decode ends the loop: no line is
\* read after the line that failed, no item is sent after the error item, and
\* the error is the last item of the fragment sequence.
C1_ErrorEndsStream ==
    \A c \in Calls :
        /\ \A k \in 1..pos[c] :
               ~IsOk(parse_line(response[c].lines[k])) => k = pos[c]
        /\ \A i \in DOMAIN sent[c] : ~IsOk(sent[c][i]) => i = Len(sent[c])
        /\ \A i \in DOMAIN fragments[c] :
               ~IsOk(fragments[c][i]) => i = Len(fragments[c])

\* C2: once an event whose last choice carries a finish reason is forwarded,
\* the loop is Done: that event is the last item sent and its line is the
\* last line read, whatever lines follow; a body that starts with a frame
\* without and a frame with a finish reason gives the consumer exactly two
\* fragments and then the end of the stream.
C2_FinishEndsLoop ==
    \A c \in Calls :
        /\ \A i \in DOMAIN sent[c] :
               HasFinish(sent[c][i]) =>
                   /\ i = Len(sent[c])
                   /\ phase[c] = "Done"
                   /\ ItemOf(response[c].lines[pos[c]]) = sent[c][i]
        /\ ( /\ Len(response[c].lines) >= 2
             /\ response[c].lines[1] = LineHi
             /\ response[c].lines[2] = LineStop
             /\ consumer[c] = "Ended" )
           => (fragments[c] = <<Ok("Hi"), Ok("")>> /\ pos[c] = 2)

C2_Witness ==
    /\ response[1].lines = <<LineHi, LineStop, LineHi>>
    /\ phase[1] = "Done"
    /\ pos[1] = 2
    /\ consumer[1] = "Ended"
    /\ Len(fragments[1]) = 2

\* C3: the items the consumer takes from the channel are the items of the
\* frame lines in the order the lines were read: what was sent is the
\* sequence of the frames read (less the one whose send failed), and what
\* was received and what the channel still holds make up what was sent.
C3_FramesInOrder ==
    \A c \in Calls :
        LET frames == SelectSeq(LinesRead(c), IsFrameLine)
            forwarded == IF phase[c] = "Aborted"
                         THEN SubSeq(frames, 1, Len(frames) - 1)
                         ELSE frames
        IN /\ sent[c] = [i \in DOMAIN forwarded |-> ItemOf(forwarded[i])]
           /\ IsPrefix(received[c], sent[c])
           /\ ~Dropped(c) => received[c] \o chan[c] = sent[c]

C3_Witness ==
    /\ response[1].lines = <<LineHi, LineTwoChoices, LineStop>>
    /\ consumer[1] = "Ended"
    /\ Len(received[1]) = 3
    /\ received[1][1] = ItemOf(LineHi)
    /\ received[1][2] = ItemOf(LineTwoChoices)
    /\ received[1][3] = ItemOf(LineStop)

\* C4: after the consumer's drop no send succeeds, and the first frame line
\* read after it (the first send attempt) moves the loop to Aborted, where no
\* line is read any more: at most one frame line is read after the drop, it
\* is the last line read, and the loop is Aborted exactly when there is one.
C4_DropAborts ==
    \A c \in Calls :
        LET attempts == SelectSeq(LinesReadAfterDrop(c), IsFrameLine) IN
        /\ Dropped(c) =>
              /\ Len(sent[c]) = dropSent[c]
              /\ Len(attempts) <= 1
              /\ (Len(attempts) = 1) <=> (phase[c] = "Aborted")
              /\ Len(attempts) = 1 => IsFrameLine(response[c].lines[pos[c]])
        /\ phase[c] = "Aborted" => Dropped(c)

C4_Witness ==
    /\ Dropped(1)
    /\ phase[1] = "Aborted"
    /\ dropSent[1] >= 1
    /\ pos[1] = dropPos[1] + 1
    /\ pos[1] < Len(response[1].lines)

\* C5 as stated: after the consumer's drop the task reads at most one more line.
C5_AtMostOneLineAfterDrop ==
    \A c \in Calls : Dropped(c) => pos[c] - dropPos[c] <= 1

\* C5 as amended: after the consumer's drop the task reads at most one more
\* frame line (a "data: " frame or a read error), and stops at it; the lines
\* read before it since the drop are all keep-alive lines, however many.
C5_AtMostOneFrameAfterDrop ==
    \A c \in Calls :
        Dropped(c) =>
            \A k \in DOMAIN LinesReadAfterDrop(c) :
                IF k < Len(LinesReadAfterDrop(c))
                THEN IsKeepAlive(LinesReadAfterDrop(c)[k])
                ELSE IsFrameLine(LinesReadAfterDrop(c)[k]) => phase[c] = "Aborted"

C5_Witness ==
    /\ Dropped(1)
    /\ pos[1] - dropPos[1] >= 3
    /\ phase[1] = "Aborted"

\* C6: a line that is blank or does not start with "data: " sends nothing and
\* does not end the loop: what was sent is what the frame lines alone give,
\* one item each and in their order, and after such a line the loop is still
\* reading (or at the end of the body).
C6_KeepAliveIgnored ==
    \A c \in Calls :
        LET frames == SelectSeq(LinesRead(c), IsFrameLine) IN
        /\ Len(sent[c]) = Len(frames) - (IF phase[c] = "Aborted" THEN 1 ELSE 0)
        /\ \A i \in DOMAIN sent[c] : sent[c][i] = ItemOf(frames[i])
        /\ (pos[c] >= 1 /\ IsKeepAlive(response[c].lines[pos[c]]))
           => phase[c] \in {"Streaming", "EndOfBody"}
        /\ ( /\ consumer[c] = "Ended"
             /\ SelectSeq(response[c].lines, IsFrameLine) = <<LineHi, LineStop>> )
           => fragments[c] = <<Ok("Hi"), Ok("")>>

C6_Witness ==
    /\ response[1].lines = <<LineHi, LineBlank, LineStop>>
    /\ consumer[1] = "Ended"
    /\ fragments[1] = <<Ok("Hi"), Ok("")>>

\* C7: when the consumer takes an error item, it has taken every item sent
\* before it, in order, and the fragment sequence holds the fragments of all
\* of them followed by the error.
C7_PrefixThenError ==
    \A c \in Calls :
        \A i \in DOMAIN received[c] :
            ~IsOk(received[c][i]) =>
                /\ SubSeq(received[c], 1, i) = SubSeq(sent[c], 1, i)
                /\ IsPrefix(ExpectedFragments(SubSeq(sent[c], 1, i - 1))
                              \o <<Err(sent[c][i].error)>>,
                            fragments[c])

C7_Witness ==
    /\ response[1].lines = <<LineHi, LineTwoChoices, LineBad>>
    /\ fragments[1] = <<Ok("Hi"), Ok("B"), Err("expected value")>>

\* The digits of a status code.
CodeText(status) ==
    CASE status = 201 -> "201"
      [] status = 400 -> "400"
      [] status = 500 -> "500"

\* The non-empty message of an {error: {message}} body, if the body is one.
StructuredMessage(body) ==
    IF body = BodyBadRequest THEN <<"bad request">> ELSE <<>>

\* C8: on a non-success status the call fails and there is never a stream:
\* no task runs, nothing is sent, the consumer gets no fragment sequence; the
\* failure carries the message of an {error: {message}} body when that is not
\* empty, and the status code and the raw body otherwise; it is never empty.
C8_ErrorPathFails ==
    \A c \in Calls :
        (response[c].kind = "Response" /\ response[c].status \notin 200..299) =>
            /\ phase[c] \in {"AwaitingResponse", "ErrorBody", "Failed"}
            /\ consumer[c] \in {"Awaiting", "Failed"}
            /\ sent[c] = <<>> /\ fragments[c] = <<>>
            /\ (phase[c] = "Failed") <=> (failure[c] # None)
            /\ phase[c] = "Failed" =>
                  /\ consumer[c] = "Failed"
                  /\ Len(failure[c][1]) > 0
                  /\ response[c].body.kind = "Ok" =>
                        LET body == response[c].body.v
                            message == StructuredMessage(body)
                        IN IF message # <<>>
                           THEN EndsWith(failure[c][1], ": " \o message[1])
                           ELSE /\ Contains(failure[c][1], CodeText(response[c].status))
                                /\ EndsWith(failure[c][1], " " \o body)

C8_Witness ==
    /\ response[1].status = 500
    /\ response[1].body = Ok(BodyOops)
    /\ phase[1] = "Failed"
    /\ failure[1] = <<"Failed to connect to OpenAI API: 500 Internal Server Error oops">>

\* C9: every event the consumer takes yields exactly one fragment, the delta
\* content of its last choice or the empty text, except that an event
\* without choices yields nothing, and the sequence goes on after it.
C9_DeltaProjection ==
    \A c \in Calls :
        /\ fragments[c] = ExpectedFragments(received[c])
        /\ Len(fragments[c]) =
               Cardinality({i \in DOMAIN received[c] :
                              ~(IsOk(received[c][i]) /\ received[c][i].v.choices = <<>>)})

C9_Witness ==
    /\ response[1].lines = <<LineNoChoices, LineTwoChoices, LineStop>>
    /\ Len(received[1]) = 3
    /\ fragments[1] = <<Ok("B"), Ok("")>>

\* C10: truncate from the start keeps the last `length` tokens of a content
\* of more than `length` tokens: it returns what decode makes of them.
C10_StartKeepsLast ==
    LET tokens == encode_with_special_tokens(content)
        n == Len(tokens)
    IN (tpc # "call" /\ direction = "Start" /\ n > length) =>
           result = decode(SubSeq(tokens, n - length + 1, n))

C12_ShortContentUnchanged ==
    (tpc # "call" /\ tpc # "idle" /\ count_tokens(lm, content).v <= length) =>
        /\ result = decode(encode_with_special_tokens(content))
        /\ result = Ok(content)
        /\ (tpc = "again" => again = result)

\* A content of exactly length tokens was truncated twice from the start.
C12_Witness ==
    /\ tpc = "again"
    /\ direction = "Start"
    /\ length >= 2
    /\ count_tokens(lm, content).v = length
    /\ again = Ok(content)

\* The variants of the trail's catalog under the provider of its first variant,
\* and the variants the first n calls of cycle started from.
Family == {variant \in Catalog(crate) : variant.provider = trail[1].provider}

Visited(n) == {trail[i] : i \in 1..n}

\* C13: in every catalog of the source, cycle has no fixed point, and as many
\* calls as the provider has variants visit each variant once and come back
\* to the first.
C13_CycleVisitsAllNoFixedPoint ==
    Len(trail) >= 2 =>
        /\ \A i \in 1..(Len(trail) - 1) : trail[i + 1] # trail[i]
        /\ Len(trail) > Cardinality(Family) =>
               /\ Visited(Cardinality(Family)) = Family
               /\ trail[Cardinality(Family) + 1] = trail[1]

\* C14: the model of the settings always belongs to the provider of the
\* settings.
C14_ModelOfSelectedProvider ==
    Len(trail) >= 1 => default_ai_model.provider = default_provider

\* C15: cycle returns a variant of the same provider, in both catalogs.
C15_CycleKeepsProvider ==
    \A i \in 1..(Len(trail) - 1) : trail[i + 1].provider = trail[i].provider

\* The last OpenAI model of crates/ai wrapped to an OpenAI model.
C15_Witness ==
    /\ crate = "ai"
    /\ Len(trail) >= 3
    /\ trail[Len(trail) - 1] = OpenAI("FourTurbo")
    /\ trail[Len(trail)] = OpenAI("ThreePointFiveTurbo")

\* An item whose last choice carries a finish reason that is not the empty text.
HasNonEmptyFinish(item) ==
    /\ HasFinish(item)
    /\ item.v.choices[Len(item.v.choices)].finish_reason # Some("")

\* C18: the loop is Done after forwarding an event exactly when the last
\* choice of that event carries a non-empty finish reason; after any other
\* forwarded event the loop is not Done.
C18_DoneIffNonEmptyFinish ==
    \A c \in Calls :
        \A i \in DOMAIN sent[c] :
            HasNonEmptyFinish(sent[c][i]) <=> (phase[c] = "Done" /\ i = Len(sent[c]))

\* The phases of a call whose background task was spawned.
StreamingPath == {"Streaming", "Done", "Aborted", "EndOfBody"}

\* C19: a response with a success status enters the streaming path, and a
\* response with any other status enters the error path, where the call
\* fails, no task runs and nothing is sent.
C19_SuccessStatusStreams ==
    \A c \in Calls :
        (response[c].kind = "Response" /\ phase[c] # "AwaitingResponse") =>
            IF response[c].status \in 200..299
            THEN phase[c] \in StreamingPath
            ELSE /\ phase[c] \in {"ErrorBody", "Failed"}
                 /\ sent[c] = <<>>
                 /\ consumer[c] \in {"Awaiting", "Failed"}

\* C20: the background task never waits for the consumer: while it is in the
\* loop, its next step (reading and sending a line, or finding the end of the
\* body) can be taken whatever the channel holds unread.
C20_SendNeverWaits ==
    \A c \in Calls :
        phase[c] = "Streaming" => ENABLED (StreamLoopStep(c) \/ StreamLoopEnd(c))

\* The consumer is alive and has taken nothing, and the task has sent three
\* items and is Done.
C20_Witness ==
    /\ consumer[1] = "Polling"
    /\ received[1] = <<>>
    /\ Len(chan[1]) = 3
    /\ Len(sent[1]) = 3
    /\ phase[1] = "Done"

\* The background task has returned and with it the sender is gone.
Terminated(c) == phase[c] \in {"Done", "Aborted", "EndOfBody"}

\* C16: with a finite body, a task that entered the loop eventually returns
\* (at a finish frame, at the end of the body, or at a send after the
\* consumer's drop), and a consumer that polls the stream eventually sees its
\* end, unless it drops the stream first.
C16_StreamEnds ==
    \A c \in Calls :
        /\ (phase[c] = "Streaming") ~> Terminated(c)
        /\ (consumer[c] = "Polling") ~> (consumer[c] \in {"Ended", "Dropped"})
        /\ [](consumer[c] = "Ended" => (Terminated(c) /\ chan[c] = <<>>))

\* A body without finish frame was read to its end and the consumer, having
\* taken both fragments, saw the end of the stream.
C16_Witness ==
    /\ response[1].lines = <<LineHi, LineBlank, LineHi>>
    /\ phase[1] = "EndOfBody"
    /\ consumer[1] = "Ended"
    /\ Len(fragments[1]) = 2

\* All that a call holds: its response, its task, its channel, its consumer.
CallState(c) ==
    <<response[c], phase[c], pos[c], chan[c], consumer[c], fragments[c],
      failure[c], sent[c], received[c]>>

\* The items of the frame lines of a call's own body, up to the line read.
OwnItems(c) ==
    LET frames == SelectSeq(LinesRead(c), IsFrameLine)
    IN [i \in DOMAIN frames |-> ItemOf(frames[i])]

\* C17: concurrent calls run independently under every interleaving: a step
\* of one call changes nothing of another call; what a consumer receives are
\* the items of its own call's body, in order, and its fragments are theirs;
\* a task is Aborted only by the drop of its own consumer, and a consumer
\* sees the end only when its own task has returned and it has taken all that
\* task sent.
C17_CallsIndependent ==
    /\ [][\A c \in Calls :
            CallState(c)' # CallState(c) =>
                \A other \in Calls \ {c} : CallState(other)' = CallState(other)]_vars
    /\ [](\A c \in Calls :
            /\ IsPrefix(received[c], OwnItems(c))
            /\ fragments[c] = ExpectedFragments(received[c])
            /\ phase[c] = "Aborted" => Dropped(c)
            /\ consumer[c] = "Ended" => (Terminated(c) /\ received[c] = sent[c]))

\* The first call's consumer dropped its stream after one item and its task
\* was aborted; the second call delivered its whole sequence.
C17_Witness ==
    /\ response[1].lines = <<LineHi, LineHi>>
    /\ response[2].lines = <<LineTwoChoices, LineStop>>
    /\ Dropped(1)
    /\ phase[1] = "Aborted"
    /\ dropSent[1] = 1
    /\ consumer[2] = "Ended"
    /\ fragments[2] = <<Ok("B"), Ok("")>>

\* The successor the 3-cycle User -> Assistant -> System -> User gives a role.
Successor(role) ==
    IF role = "User" THEN "Assistant"
    ELSE IF role = "Assistant" THEN "System"
    ELSE "User"

\* C21: Role::cycle is the 3-cycle User -> Assistant -> System -> User in
\* both modules that define Role: each call moves to the successor, which is
\* never the role itself, and three calls come back to the starting role.
C21_RoleThreeCycle ==
    /\ \A i \in 1..(Len(roles) - 1) :
           /\ roles[i + 1] = Successor(roles[i])
           /\ roles[i + 1] # roles[i]
    /\ Len(roles) >= 4 =>
           (roles[4] = roles[1] /\ {roles[1], roles[2], roles[3]} = Roles)
    /\ \A role \in Roles : RoleCycle(role) = OllamaRoleCycle(role)

\* The Role of the ollama module went from System through User and Assistant
\* back to System.
C21_Witness ==
    /\ roleModule = "ollama"
    /\ Len(roles) >= 4
    /\ roles[1] = "System"
    /\ roles[2] = "User"
    /\ roles[4] = "System"

\* The error items among some items.
Errors(items) == SelectSeq(items, LAMBDA item : ~IsOk(item))

\* C22: when the body of a success response ends before any frame with a
\* finish reason, the loop exits without sending anything for the end: what
\* was sent are the items of the body's frames and no more, the call has no
\* failure, the consumer that has taken them all can see the end of the
\* stream, and when it has, its fragments are those of the frames delivered,
\* with no error other than those of the lines themselves.
C22_EndOfBodyEndsNormally ==
    \A c \in Calls :
        phase[c] = "EndOfBody" =>
            /\ pos[c] = Len(response[c].lines)
            /\ \A i \in DOMAIN sent[c] : ~HasFinish(sent[c][i])
            /\ sent[c] = OwnItems(c)
            /\ failure[c] = None
            /\ (consumer[c] = "Polling" /\ chan[c] = <<>>) => ENABLED ConsumerEnd(c)
            /\ consumer[c] = "Ended" =>
                  /\ fragments[c] = ExpectedFragments(OwnItems(c))
                  /\ Len(Errors(fragments[c])) = Len(Errors(OwnItems(c)))

\* A body of two frames without finish reason ended, and the consumer got
\* the two fragments and the end of the stream, no error.
C22_Witness ==
    /\ response[1].lines = <<LineHi, LineNoChoices, LineHi>>
    /\ phase[1] = "EndOfBody"
    /\ consumer[1] = "Ended"
    /\ fragments[1] = <<Ok("Hi"), Ok("Hi")>>

\* C23: full_name is injective over the whole catalog, both providers
\* together: a name on the wire is the name of the one variant it was made
\* from and of no other variant, and cycling to a different variant changes
\* the name.
C23_FullNameInjective ==
    /\ wire # None =>
           \A variant \in Catalog(crate) :
               full_name(crate, variant) = wire[1].name => variant = wire[1].variant
    /\ \A i \in 1..(Len(trail) - 1) :
           trail[i + 1] # trail[i] =>
               full_name(crate, trail[i + 1]) # full_name(crate, trail[i])

\* The caller of crates/ai cycled from codellama:7b to codellama:13b and named
\* the latter.
C23_Witness ==
    /\ crate = "ai"
    /\ Len(trail) >= 2
    /\ trail[1] = Ollama("CodeLlamaSevenBillion")
    /\ wire = Some([variant |-> Ollama("CodeLlamaThirteenBillion"), name |-> "codellama:13b"])
====
